---- MODULE Spec2Model ----
(***************************************************************************)
(* Rewards shop: the SQLite store of data_layer.py and the service calls   *)
(* of business_layer.RewardShopService, one action per service call.       *)
(* A call that raises leaves the store as it was and records the exception *)
(* in `last`; a call that returns records its return value there.          *)
(***************************************************************************)
EXTENDS Integers, Sequences, FiniteSets, TLC

VARIABLES customers, rewards, orders, seq, issued, last, opening,
          procs, started, crashes, refunded

vars == <<customers, rewards, orders, seq, issued, last, opening,
          procs, started, crashes, refunded>>

\* the state of the calls in progress, for the specifications in which a
\* service call is a sequence of persistence calls (SpecCrash, SpecRace)
stepvars == <<procs, started, crashes, refunded>>

(***************************************************************************)
(* Bounds of the exploration.                                              *)
(***************************************************************************)
\* successful state-changing calls explored from the seeded store
MaxCalls == 3
MaxStarts == 3
MaxCrashes == 1

(***************************************************************************)
(* Text: a Python str is a sequence of one-character strings.              *)
(***************************************************************************)
S_Alice == <<"A", "l", "i", "c", "e">>
S_Bob == <<"B", "o", "b">>
S_Chris == <<"C", "h", "r", "i", "s">>
S_example == <<"@", "e", "x", "a", "m", "p", "l", "e", ".", "c", "o", "m">>
S_alice == <<"a", "l", "i", "c", "e">>
S_bob == <<"b", "o", "b">>
S_chris == <<"c", "h", "r", "i", "s">>
S_BoosterPack == <<"B", "o", "o", "s", "t", "e", "r", " ", "P", "a", "c", "k">>
S_Playmat == <<"P", "l", "a", "y", "m", "a", "t">>
S_Sleeves == <<"S", "l", "e", "e", "v", "e", "s">>
S_StarterDeck == <<"S", "t", "a", "r", "t", "e", "r", " ", "D", "e", "c", "k">>

Whitespace == {" "}

RECURSIVE lstrip(_)
lstrip(s) == IF s # <<>> /\ Head(s) \in Whitespace THEN lstrip(Tail(s)) ELSE s

RECURSIVE rstrip(_)
rstrip(s) ==
    IF s # <<>> /\ s[Len(s)] \in Whitespace
    THEN rstrip(SubSeq(s, 1, Len(s) - 1))
    ELSE s

\* str.strip()
strip(s) == rstrip(lstrip(s))

\* "@" in email
ContainsAt(s) == \E i \in 1..Len(s) : s[i] = "@"

(***************************************************************************)
(* data_layer: the three tables, as functions from the row id to the row,  *)
(* and sqlite_sequence (AUTOINCREMENT never hands out an id twice).        *)
(***************************************************************************)
SeedCustomers ==
    (1 :> [name |-> S_Alice, email |-> S_alice \o S_example, points |-> 100]) @@
    (2 :> [name |-> S_Bob, email |-> S_bob \o S_example, points |-> 60]) @@
    (3 :> [name |-> S_Chris, email |-> S_chris \o S_example, points |-> 250])

SeedRewards ==
    (1 :> [name |-> S_BoosterPack, cost |-> 20]) @@
    (2 :> [name |-> S_Playmat, cost |-> 50]) @@
    (3 :> [name |-> S_Sleeves, cost |-> 15]) @@
    (4 :> [name |-> S_StarterDeck, cost |-> 40])

NoRows == [i \in {} |-> 0]

Remove(table, id) == [i \in DOMAIN table \ {id} |-> table[i]]

\* SELECT id, name, email, points FROM customers WHERE id = ?  (<<>> is None)
get_customer_by_id(table, customer_id) ==
    IF customer_id \in DOMAIN table
    THEN <<[id |-> customer_id,
            name |-> table[customer_id].name,
            email |-> table[customer_id].email,
            points |-> table[customer_id].points]>>
    ELSE <<>>

\* SELECT id, name, cost FROM rewards WHERE id = ?
get_reward_by_id(reward_id) ==
    IF reward_id \in DOMAIN rewards
    THEN <<[id |-> reward_id,
            name |-> rewards[reward_id].name,
            cost |-> rewards[reward_id].cost]>>
    ELSE <<>>

\* SELECT ... FROM orders WHERE id = ?
get_order_by_id(order_id) ==
    IF order_id \in DOMAIN orders THEN <<orders[order_id]>> ELSE <<>>

\* slip: the write adds the value to the balance that is there
update_customer_points_adds(table, customer_id, new_points) ==
    IF customer_id \in DOMAIN table
    THEN [table EXCEPT ![customer_id].points = @ + new_points]
    ELSE table

\* UPDATE customers SET points = ? WHERE id = ?  (no row: nothing happens)
update_customer_points(table, customer_id, new_points) ==
    IF customer_id \in DOMAIN table
    THEN [table EXCEPT ![customer_id].points = new_points]
    ELSE table

\* slip: the WHERE clause is missing
update_order_status_every_row(table, order_id, new_status) ==
    [o \in DOMAIN table |-> [table[o] EXCEPT !.status = new_status]]

\* UPDATE orders SET status = ? WHERE id = ?
update_order_status(table, order_id, new_status) ==
    IF order_id \in DOMAIN table
    THEN [table EXCEPT ![order_id].status = new_status]
    ELSE table

\* slip: quantity and points_spent are bound to each other's column
insert_order_swapped(customer_id, reward_id, quantity, points_spent, order_time) ==
    (seq.orders + 1) :>
        [customer_id |-> customer_id,
         reward_id |-> reward_id,
         quantity |-> points_spent,
         points_spent |-> quantity,
         order_time |-> order_time,
         status |-> "pending"]

\* INSERT INTO orders (...): the new row, status defaulting to 'pending'
insert_order(customer_id, reward_id, quantity, points_spent, order_time) ==
    (seq.orders + 1) :>
        [customer_id |-> customer_id,
         reward_id |-> reward_id,
         quantity |-> quantity,
         points_spent |-> points_spent,
         order_time |-> order_time,
         status |-> "pending"]

\* the pending rows that have their customer and their reward (the JOINs)
PendingJoined ==
    {o \in DOMAIN orders :
        /\ orders[o].status = "pending"
        /\ orders[o].customer_id \in DOMAIN customers
        /\ orders[o].reward_id \in DOMAIN rewards}

\* one row of the SELECT of get_pending_orders_with_details
PendingRow(o) ==
    [id |-> o,
     customer_id |-> orders[o].customer_id,
     customer_name |-> customers[orders[o].customer_id].name,
     reward_id |-> orders[o].reward_id,
     reward_name |-> rewards[orders[o].reward_id].name,
     quantity |-> orders[o].quantity,
     points_spent |-> orders[o].points_spent,
     status |-> orders[o].status,
     order_time |-> orders[o].order_time]

RECURSIVE Ascending(_)
\* ORDER BY o.order_time ASC: every way of listing the orders S with the
\* order_time never going down (rows of equal order_time come in any order)
Ascending(S) ==
    IF S = {} THEN {<<>>}
    ELSE LET first == {o \in S : \A x \in S :
                         orders[o].order_time <= orders[x].order_time}
         IN  UNION {{<<o>> \o rest : rest \in Ascending(S \ {o})} : o \in first}

\* SELECT ... WHERE o.status = 'pending' ORDER BY o.order_time ASC: every
\* result the query may give
get_pending_orders_with_details ==
    {[i \in 1..Len(ids) |-> PendingRow(ids[i])] : ids \in Ascending(PendingJoined)}

EmailTaken_unchecked(email) == FALSE

\* email TEXT NOT NULL UNIQUE
EmailTaken(email) == \E i \in DOMAIN customers : customers[i].email = email

\* slip: the foreign key is not enforced
CustomerReferenced_unenforced(customer_id) == FALSE

\* FOREIGN KEY(customer_id) REFERENCES customers(id), PRAGMA foreign_keys = ON
CustomerReferenced(customer_id) ==
    \E o \in DOMAIN orders : orders[o].customer_id = customer_id

\* FOREIGN KEY(reward_id) REFERENCES rewards(id), PRAGMA foreign_keys = ON
RewardReferenced(reward_id) ==
    \E o \in DOMAIN orders : orders[o].reward_id = reward_id

(***************************************************************************)
(* What a call left behind: the exception it raised (err) or the value it  *)
(* returned (ret, <<>> for None).                                          *)
(***************************************************************************)
Ok == "none"

Returned(op, args, ret) == [op |-> op, args |-> args, err |-> Ok, ret |-> ret]

Raised(op, args, err) == [op |-> op, args |-> args, err |-> err, ret |-> <<>>]

(***************************************************************************)
(* Inputs of the calls.  Alice and Bob (ids 1, 2) and every customer added *)
(* later shop, and Booster Pack (id 1) and every reward added later are    *)
(* asked for; Chris and the rewards 2, 3 and 4 stand by.  An id that was   *)
(* deleted or never handed out stands for a missing row.  Besides the      *)
(* well-formed calls each set holds one call per refusal of the handler,   *)
(* chosen so that an earlier check has to win over a later one.            *)
(***************************************************************************)
Shoppers == {1, 2} \cup 4..seq.customers

Wares == {1} \cup 5..seq.rewards

\* ids that sqlite_sequence has not handed out yet
NoCustomer == seq.customers + 1

NoReward == seq.rewards + 1

NoOrder == seq.orders + 1

\* redeem_reward(customer_id, reward_id, quantity)
RedeemInputs ==
    (Shoppers \X Wares \X {1, 3})
    \cup {<<NoCustomer, NoReward, 0>>, <<1, 1, -2>>,
          <<NoCustomer, NoReward, 1>>, <<1, NoReward, 1>>}

\* datetime.now() as insert_order reads it: local wall-clock time, which may
\* repeat or step back between two calls
Times == {1, 2}

\* issue_points(customer_id, points)
IssueInputs ==
    (Shoppers \X {25})
    \cup {<<1, 0>>, <<NoCustomer, -5>>, <<NoCustomer, 25>>}

\* fulfill_order(order_id), cancel_order(order_id)
OrderInputs == 1..NoOrder

S_Dan == <<"D", "a", "n", " ">>
S_dan == <<"d", "a", "n">>
S_dx == <<" ", "d", "@", "x">>
S_Mug == <<"M", "u", "g">>

\* add_customer(name, email, points)
AddCustomerInputs ==
    {<<S_Dan, S_dx, 40>>,
     <<(<<" ">>), S_dx, 40>>, <<S_Dan, S_dan, -1>>, <<S_Dan, S_dx, -1>>,
     <<S_Dan, <<" ">> \o S_alice \o S_example, 0>>}

\* delete_customer(customer_id)
DeleteCustomerInputs == Shoppers \cup {NoCustomer}

\* add_reward(name, cost)
AddRewardInputs ==
    {<<S_Mug, 30>>, <<(<<>>), 30>>, <<S_Mug, 0>>}

\* delete_reward(reward_id)
DeleteRewardInputs == Wares \cup {NoReward}

\* state-changing calls that succeeded since the store was seeded
Calls ==
    Len(issued)
    + Cardinality(DOMAIN orders)
    + Cardinality({o \in DOMAIN orders : orders[o].status # "pending"})
    + (seq.customers - 3) + (seq.customers - Cardinality(DOMAIN customers))
    + (seq.rewards - 4) + (seq.rewards - Cardinality(DOMAIN rewards))

Budget == Calls < MaxCalls

(***************************************************************************)
(* RewardShopService                                                       *)
(***************************************************************************)
\* slip: quantity 0 passes
InvalidQuantity_lets_zero(quantity) == quantity < 0

\* if quantity < 1
InvalidQuantity(quantity) == quantity < 1

\* slip: the quantity is left out of the cost
total_cost_of_one(reward, quantity) == reward.cost

\* total_cost = reward.cost * quantity
total_cost(reward, quantity) == reward.cost * quantity

\* slip: the balance that just covers the cost is refused
NotEnoughPoints_refuses_equal(customer, cost) == customer.points <= cost

\* slip: the operands of the comparison are swapped
NotEnoughPoints_swapped(customer, cost) == cost < customer.points

\* if customer.points < total_cost
NotEnoughPoints(customer, cost) == customer.points < cost

\* slip: nothing is deducted
redeem_new_points_undeducted(customer, cost) == customer.points

\* new_points = customer.points - total_cost
redeem_new_points(customer, cost) == customer.points - cost

\* slip: a reward of cost 0 passes
InvalidCost_lets_zero(cost) == cost < 0

\* if cost <= 0
InvalidCost(cost) == cost <= 0

\* slip: 0 points pass
InvalidPoints_lets_zero(points) == points < 0

\* if points <= 0
InvalidPoints(points) == points <= 0

\* new_points = customer.points + points
issue_new_points(customer, points) == customer.points + points

\* slip: the status check is left out
NotPending_unchecked(status) == FALSE

\* slip: only a fulfilled order is refused
NotPending_only_fulfilled(status) == status = "fulfilled"

\* if status != "pending"
NotPending(status) == status # "pending"

\* slip: the refund is taken off instead of added
cancel_new_points_minus(customer, points_spent) == customer.points - points_spent

\* new_points = customer.points + points_spent
cancel_new_points(customer, points_spent) == customer.points + points_spent

\* a call in progress: the service method, where it stands, its arguments,
\* the rows it read, the writes it has committed, the last order id there
\* was when it began, the exception it raised and the customer it returned
Procs == {1, 2}

Idle ==
    [op |-> "idle", pc |-> "idle", args |-> <<>>, customer |-> <<>>,
     reward |-> <<>>, order |-> <<>>, written |-> <<>>, base |-> 0,
     err |-> Ok, ret |-> <<>>]

Init ==
    /\ customers = SeedCustomers
    /\ rewards = SeedRewards
    /\ orders = NoRows
    /\ seq = [customers |-> 3, rewards |-> 4, orders |-> 0]
    /\ issued = <<>>
    /\ last = Returned("init_db", <<>>, <<>>)
    /\ opening = [c \in DOMAIN SeedCustomers |-> SeedCustomers[c].points]
    /\ procs = [p \in Procs |-> Idle]
    /\ started = 0
    /\ crashes = 0
    /\ refunded = {}

redeem_reward(customer_id, reward_id, quantity, now) ==
    LET op == "redeem_reward"
        args == <<customer_id, reward_id, quantity>>
        customer == get_customer_by_id(customers, customer_id)
        reward == get_reward_by_id(reward_id)
        cost == total_cost(reward[1], quantity)
        new_points == redeem_new_points(customer[1], cost)
        customers1 == update_customer_points(customers, customer_id, new_points)
        updated_customer == get_customer_by_id(customers1, customer_id)
    IN  IF InvalidQuantity(quantity) THEN
            /\ last' = Raised(op, args, "Quantity must be at least 1.")
            /\ UNCHANGED <<customers, rewards, orders, seq, issued, opening>>
        ELSE IF customer = <<>> THEN
            /\ last' = Raised(op, args, "Customer not found.")
            /\ UNCHANGED <<customers, rewards, orders, seq, issued, opening>>
        ELSE IF reward = <<>> THEN
            /\ last' = Raised(op, args, "Reward not found.")
            /\ UNCHANGED <<customers, rewards, orders, seq, issued, opening>>
        ELSE IF NotEnoughPoints(customer[1], cost) THEN
            /\ last' = Raised(op, args, "does not have enough points.")
            /\ UNCHANGED <<customers, rewards, orders, seq, issued, opening>>
        ELSE
            /\ Budget
            /\ customers' = customers1
            /\ orders' = orders @@
                   insert_order(customer_id, reward_id, quantity, cost, now)
            /\ seq' = [seq EXCEPT !.orders = @ + 1]
            /\ last' = Returned(op, args,
                   <<updated_customer[1], reward[1], cost>>)
            /\ UNCHANGED <<rewards, issued, opening>>

issue_points(customer_id, points) ==
    LET op == "issue_points"
        args == <<customer_id, points>>
        customer == get_customer_by_id(customers, customer_id)
        new_points == issue_new_points(customer[1], points)
        customers1 == update_customer_points(customers, customer_id, new_points)
        updated_customer == get_customer_by_id(customers1, customer_id)
    IN  IF InvalidPoints(points) THEN
            /\ last' = Raised(op, args, "Points to add must be greater than 0.")
            /\ UNCHANGED <<customers, rewards, orders, seq, issued, opening>>
        ELSE IF customer = <<>> THEN
            /\ last' = Raised(op, args, "Customer not found.")
            /\ UNCHANGED <<customers, rewards, orders, seq, issued, opening>>
        ELSE
            /\ Budget
            /\ customers' = customers1
            /\ issued' = Append(issued, [customer_id |-> customer_id, points |-> points])
            /\ last' = Returned(op, args,
                   updated_customer)
            /\ UNCHANGED <<rewards, orders, seq, opening>>

fulfill_order(order_id) ==
    LET op == "fulfill_order"
        args == <<order_id>>
        row == get_order_by_id(order_id)
    IN  IF row = <<>> THEN
            /\ last' = Raised(op, args, "Order not found.")
            /\ UNCHANGED <<customers, rewards, orders, seq, issued, opening>>
        ELSE IF NotPending(row[1].status) THEN
            /\ last' = Raised(op, args, "Order is not pending")
            /\ UNCHANGED <<customers, rewards, orders, seq, issued, opening>>
        ELSE
            /\ Budget
            /\ orders' = update_order_status(orders, order_id, "fulfilled")
            /\ last' = Returned(op, args, <<>>)
            /\ UNCHANGED <<customers, rewards, seq, issued, opening>>

cancel_order(order_id) ==
    LET op == "cancel_order"
        args == <<order_id>>
        row == get_order_by_id(order_id)
        customer_id == row[1].customer_id
        points_spent == row[1].points_spent
        customer == get_customer_by_id(customers, customer_id)
        new_points == cancel_new_points(customer[1], points_spent)
        customers1 == update_customer_points(customers, customer_id, new_points)
        updated_customer == get_customer_by_id(customers1, customer_id)
    IN  IF row = <<>> THEN
            /\ last' = Raised(op, args, "Order not found.")
            /\ UNCHANGED <<customers, rewards, orders, seq, issued, opening>>
        ELSE IF NotPending(row[1].status) THEN
            /\ last' = Raised(op, args, "Order is not pending")
            /\ UNCHANGED <<customers, rewards, orders, seq, issued, opening>>
        ELSE IF customer = <<>> THEN
            /\ last' = Raised(op, args, "Customer not found for this order.")
            /\ UNCHANGED <<customers, rewards, orders, seq, issued, opening>>
        ELSE
            /\ Budget
            /\ customers' = customers1
            /\ orders' = update_order_status(orders, order_id, "cancelled")
            /\ last' = Returned(op, args,
                   updated_customer)
            /\ UNCHANGED <<rewards, seq, issued, opening>>

add_customer(name0, email0, points) ==
    LET op == "add_customer"
        args == <<name0, email0, points>>
        name == strip(name0)
        email == strip(email0)
    IN  IF name = <<>> THEN
            /\ last' = Raised(op, args, "Name is required.")
            /\ UNCHANGED <<customers, rewards, orders, seq, issued, opening>>
        ELSE IF email = <<>> \/ ~ContainsAt(email) THEN
            /\ last' = Raised(op, args, "A valid email is required.")
            /\ UNCHANGED <<customers, rewards, orders, seq, issued, opening>>
        ELSE IF points < 0 THEN
            /\ last' = Raised(op, args, "Points cannot be negative.")
            /\ UNCHANGED <<customers, rewards, orders, seq, issued, opening>>
        ELSE IF EmailTaken(email) THEN
            /\ last' = Raised(op, args, "sqlite3.IntegrityError")
            /\ UNCHANGED <<customers, rewards, orders, seq, issued, opening>>
        ELSE
            /\ Budget
            /\ customers' = customers @@
                   ((seq.customers + 1) :>
                        [name |-> name, email |-> email, points |-> points])
            /\ seq' = [seq EXCEPT !.customers = @ + 1]
            /\ opening' = opening @@ ((seq.customers + 1) :> points)
            /\ last' = Returned(op, args, <<>>)
            /\ UNCHANGED <<rewards, orders, issued>>

delete_customer(customer_id) ==
    LET op == "delete_customer"
        args == <<customer_id>>
    IN  IF customer_id \in DOMAIN customers /\ CustomerReferenced(customer_id) THEN
            /\ last' = Raised(op, args, "sqlite3.IntegrityError")
            /\ UNCHANGED <<customers, rewards, orders, seq, issued, opening>>
        ELSE
            /\ customer_id \in DOMAIN customers => Budget
            /\ customers' = Remove(customers, customer_id)
            /\ last' = Returned(op, args, <<>>)
            /\ UNCHANGED <<rewards, orders, seq, issued, opening>>

add_reward(name0, cost) ==
    LET op == "add_reward"
        args == <<name0, cost>>
        name == strip(name0)
    IN  IF name = <<>> THEN
            /\ last' = Raised(op, args, "Reward name is required.")
            /\ UNCHANGED <<customers, rewards, orders, seq, issued, opening>>
        ELSE IF InvalidCost(cost) THEN
            /\ last' = Raised(op, args, "Reward cost must be greater than 0.")
            /\ UNCHANGED <<customers, rewards, orders, seq, issued, opening>>
        ELSE
            /\ Budget
            /\ rewards' = rewards @@
                   ((seq.rewards + 1) :> [name |-> name, cost |-> cost])
            /\ seq' = [seq EXCEPT !.rewards = @ + 1]
            /\ last' = Returned(op, args, <<>>)
            /\ UNCHANGED <<customers, orders, issued, opening>>

delete_reward(reward_id) ==
    LET op == "delete_reward"
        args == <<reward_id>>
    IN  IF reward_id \in DOMAIN rewards /\ RewardReferenced(reward_id) THEN
            /\ last' = Raised(op, args, "sqlite3.IntegrityError")
            /\ UNCHANGED <<customers, rewards, orders, seq, issued, opening>>
        ELSE
            /\ reward_id \in DOMAIN rewards => Budget
            /\ rewards' = Remove(rewards, reward_id)
            /\ last' = Returned(op, args, <<>>)
            /\ UNCHANGED <<customers, orders, seq, issued, opening>>

get_pending_orders(rows) ==
    /\ last' = Returned("get_pending_orders", <<>>, rows)
    /\ UNCHANGED <<customers, rewards, orders, seq, issued, opening>>

Next ==
    \/ \E i \in RedeemInputs, t \in Times : redeem_reward(i[1], i[2], i[3], t)
         /\ UNCHANGED stepvars
    \/ \E i \in IssueInputs : issue_points(i[1], i[2])
         /\ UNCHANGED stepvars
    \/ \E o \in OrderInputs : fulfill_order(o)
         /\ UNCHANGED stepvars
    \/ \E o \in OrderInputs : cancel_order(o)
         /\ UNCHANGED stepvars
    \/ \E i \in AddCustomerInputs : add_customer(i[1], i[2], i[3])
         /\ UNCHANGED stepvars
    \/ \E c \in DeleteCustomerInputs : delete_customer(c)
         /\ UNCHANGED stepvars
    \/ \E i \in AddRewardInputs : add_reward(i[1], i[2])
         /\ UNCHANGED stepvars
    \/ \E r \in DeleteRewardInputs : delete_reward(r)
         /\ UNCHANGED stepvars
    \/ \E rows \in get_pending_orders_with_details : get_pending_orders(rows)
         /\ UNCHANGED stepvars

Spec == Init /\ [][Next]_vars

(***************************************************************************)
(* The same service calls as sequences of persistence calls.  Every        *)
(* data_layer function opens its own connection and commits on its own,   *)
(* so one step is one data_layer call together with the local computation  *)
(* that leads to it.  Process p is one caller of the service; it may stop   *)
(* (Crash) between two persistence calls, and a later call starts afresh.   *)
(***************************************************************************)
RedeemStepInputs ==
    {<<1, 1, 1>>, <<1, 1, 3>>, <<1, 1, 0>>, <<NoCustomer, 1, 1>>,
     <<1, NoReward, 1>>}
IssueStepInputs == {<<1, 25>>, <<1, 0>>, <<NoCustomer, 25>>}

CanStart(p) ==
    /\ procs[p].pc \in {"idle", "done", "crashed"}
    /\ started < MaxStarts

Begin(op, args) ==
    [Idle EXCEPT !.op = op, !.args = args, !.base = seq.orders]

At(p, op, pc) == procs[p].op = op /\ procs[p].pc = pc

\* slip: the order is inserted before the points are written
RedeemWrites_order_first == <<"order", "points">>

\* update_customer_points(...) and then insert_order(...)
RedeemWrites == <<"points", "order">>

\* slip: the status is written before the refund
CancelWrites_status_first == <<"status", "points">>

\* update_customer_points(...) and then update_order_status(...)
CancelWrites == <<"points", "status">>

\* redeem_reward: the quantity check and customer = self.get_customer(...)
redeem_get_customer(p, customer_id, reward_id, quantity) ==
    LET call == Begin("redeem_reward", <<customer_id, reward_id, quantity>>)
        customer == get_customer_by_id(customers, customer_id)
    IN  /\ CanStart(p)
        /\ started' = started + 1
        /\ procs' = [procs EXCEPT ![p] =
               IF InvalidQuantity(quantity) THEN
                   [call EXCEPT !.pc = "done",
                                !.err = "Quantity must be at least 1."]
               ELSE IF customer = <<>> THEN
                   [call EXCEPT !.pc = "done", !.err = "Customer not found."]
               ELSE
                   [call EXCEPT !.pc = "get_reward", !.customer = customer]]
        /\ UNCHANGED <<customers, rewards, orders, seq, issued, last, opening,
                       crashes, refunded>>

\* redeem_reward: reward = self.get_reward(...), total_cost, the funds check
redeem_get_reward(p) ==
    LET reward == get_reward_by_id(procs[p].args[2])
        cost == total_cost(reward[1], procs[p].args[3])
    IN  /\ At(p, "redeem_reward", "get_reward")
        /\ procs' = [procs EXCEPT ![p] =
               IF reward = <<>> THEN
                   [@ EXCEPT !.pc = "done", !.err = "Reward not found."]
               ELSE IF NotEnoughPoints(procs[p].customer[1], cost) THEN
                   [@ EXCEPT !.pc = "done",
                             !.err = "does not have enough points."]
               ELSE
                   [@ EXCEPT !.pc = "write", !.reward = reward]]
        /\ UNCHANGED <<customers, rewards, orders, seq, issued, last, opening,
                       started, crashes, refunded>>

\* redeem_reward: its next write, from the balance it read
redeem_write(p, now) ==
    LET customer_id == procs[p].args[1]
        reward_id == procs[p].args[2]
        quantity == procs[p].args[3]
        cost == total_cost(procs[p].reward[1], quantity)
        new_points == redeem_new_points(procs[p].customer[1], cost)
        write == RedeemWrites[Len(procs[p].written) + 1]
        written == Append(procs[p].written, write)
    IN  /\ At(p, "redeem_reward", "write")
        /\ IF write = "points" THEN
               /\ customers' =
                      update_customer_points(customers, customer_id, new_points)
               /\ UNCHANGED <<orders, seq>>
           ELSE
               /\ orders' = orders @@
                      insert_order(customer_id, reward_id, quantity, cost, now)
               /\ seq' = [seq EXCEPT !.orders = @ + 1]
               /\ UNCHANGED customers
        /\ procs' = [procs EXCEPT
               ![p].written = written,
               ![p].pc = IF Len(written) = Len(RedeemWrites)
                         THEN "reread" ELSE "write"]
        /\ UNCHANGED <<rewards, issued, last, opening, started, crashes,
                       refunded>>

\* redeem_reward: updated_customer = self.get_customer(...) and the return
redeem_return(p) ==
    /\ At(p, "redeem_reward", "reread")
    /\ procs' = [procs EXCEPT
           ![p].pc = "done",
           ![p].ret = get_customer_by_id(customers, procs[p].args[1])]
    /\ UNCHANGED <<customers, rewards, orders, seq, issued, last, opening,
                   started, crashes, refunded>>

\* issue_points: the points check and customer = self.get_customer(...)
issue_get_customer(p, customer_id, points) ==
    LET call == Begin("issue_points", <<customer_id, points>>)
        customer == get_customer_by_id(customers, customer_id)
    IN  /\ CanStart(p)
        /\ started' = started + 1
        /\ procs' = [procs EXCEPT ![p] =
               IF InvalidPoints(points) THEN
                   [call EXCEPT !.pc = "done",
                                !.err = "Points to add must be greater than 0."]
               ELSE IF customer = <<>> THEN
                   [call EXCEPT !.pc = "done", !.err = "Customer not found."]
               ELSE
                   [call EXCEPT !.pc = "write", !.customer = customer]]
        /\ UNCHANGED <<customers, rewards, orders, seq, issued, last, opening,
                       crashes, refunded>>

\* issue_points: data_layer.update_customer_points(customer_id, new_points)
issue_write(p) ==
    LET customer_id == procs[p].args[1]
        points == procs[p].args[2]
        new_points == issue_new_points(procs[p].customer[1], points)
    IN  /\ At(p, "issue_points", "write")
        /\ customers' =
               update_customer_points(customers, customer_id, new_points)
        /\ issued' = Append(issued,
               [customer_id |-> customer_id, points |-> points])
        /\ procs' = [procs EXCEPT
               ![p].written = Append(@, "points"), ![p].pc = "reread"]
        /\ UNCHANGED <<rewards, orders, seq, last, opening, started, crashes,
                       refunded>>

\* issue_points: updated = self.get_customer(...) and the return
issue_return(p) ==
    /\ At(p, "issue_points", "reread")
    /\ procs' = [procs EXCEPT
           ![p].pc = "done",
           ![p].ret = get_customer_by_id(customers, procs[p].args[1])]
    /\ UNCHANGED <<customers, rewards, orders, seq, issued, last, opening,
                   started, crashes, refunded>>

\* cancel_order: row = data_layer.get_order_by_id(...) and the status check
cancel_get_order(p, order_id) ==
    LET call == Begin("cancel_order", <<order_id>>)
        row == get_order_by_id(order_id)
    IN  /\ CanStart(p)
        /\ started' = started + 1
        /\ procs' = [procs EXCEPT ![p] =
               IF row = <<>> THEN
                   [call EXCEPT !.pc = "done", !.err = "Order not found."]
               ELSE IF NotPending(row[1].status) THEN
                   [call EXCEPT !.pc = "done", !.err = "Order is not pending"]
               ELSE
                   [call EXCEPT !.pc = "get_customer", !.order = row]]
        /\ UNCHANGED <<customers, rewards, orders, seq, issued, last, opening,
                       crashes, refunded>>

\* cancel_order: customer = self.get_customer(customer_id)
cancel_get_customer(p) ==
    LET customer ==
            get_customer_by_id(customers, procs[p].order[1].customer_id)
    IN  /\ At(p, "cancel_order", "get_customer")
        /\ procs' = [procs EXCEPT ![p] =
               IF customer = <<>> THEN
                   [@ EXCEPT !.pc = "done",
                             !.err = "Customer not found for this order."]
               ELSE
                   [@ EXCEPT !.pc = "write", !.customer = customer]]
        /\ UNCHANGED <<customers, rewards, orders, seq, issued, last, opening,
                       started, crashes, refunded>>

\* cancel_order: its next write, from the row and the balance it read
cancel_write(p) ==
    LET order_id == procs[p].args[1]
        customer_id == procs[p].order[1].customer_id
        points_spent == procs[p].order[1].points_spent
        new_points == cancel_new_points(procs[p].customer[1], points_spent)
        write == CancelWrites[Len(procs[p].written) + 1]
        written == Append(procs[p].written, write)
    IN  /\ At(p, "cancel_order", "write")
        /\ IF write = "points" THEN
               /\ customers' =
                      update_customer_points(customers, customer_id, new_points)
               /\ refunded' = refunded \cup {order_id}
               /\ UNCHANGED orders
           ELSE
               /\ orders' = update_order_status(orders, order_id, "cancelled")
               /\ UNCHANGED <<customers, refunded>>
        /\ procs' = [procs EXCEPT
               ![p].written = written,
               ![p].pc = IF Len(written) = Len(CancelWrites)
                         THEN "reread" ELSE "write"]
        /\ UNCHANGED <<rewards, seq, issued, last, opening, started, crashes>>

\* cancel_order: updated_customer = self.get_customer(...) and the return
cancel_return(p) ==
    /\ At(p, "cancel_order", "reread")
    /\ procs' = [procs EXCEPT
           ![p].pc = "done",
           ![p].ret =
               get_customer_by_id(customers, procs[p].order[1].customer_id)]
    /\ UNCHANGED <<customers, rewards, orders, seq, issued, last, opening,
                   started, crashes, refunded>>

\* the process stops where it stands; what it has committed stays
Crash(p) ==
    /\ procs[p].pc \notin {"idle", "done", "crashed"}
    /\ crashes < MaxCrashes
    /\ crashes' = crashes + 1
    /\ procs' = [procs EXCEPT ![p].pc = "crashed"]
    /\ UNCHANGED <<customers, rewards, orders, seq, issued, last, opening,
                   started, refunded>>

\* one caller, who may stop between two persistence calls
NextCrash ==
    \/ \E i \in RedeemStepInputs : redeem_get_customer(1, i[1], i[2], i[3])
    \/ redeem_get_reward(1)
    \/ \E t \in Times : redeem_write(1, t)
    \/ redeem_return(1)
    \/ \E i \in IssueStepInputs : issue_get_customer(1, i[1], i[2])
    \/ issue_write(1)
    \/ issue_return(1)
    \/ \E o \in OrderInputs : cancel_get_order(1, o)
    \/ cancel_get_customer(1)
    \/ cancel_write(1)
    \/ cancel_return(1)
    \/ Crash(1)

SpecCrash == Init /\ [][NextCrash]_vars

\* two callers, interleaved persistence call by persistence call
NextRace ==
    \/ \E p \in Procs, i \in RedeemStepInputs :
         redeem_get_customer(p, i[1], i[2], i[3])
    \/ \E p \in Procs : redeem_get_reward(p)
    \/ \E p \in Procs, t \in Times : redeem_write(p, t)
    \/ \E p \in Procs : redeem_return(p)
    \/ \E p \in Procs, i \in IssueStepInputs :
         issue_get_customer(p, i[1], i[2])
    \/ \E p \in Procs : issue_write(p)
    \/ \E p \in Procs : issue_return(p)
    \/ \E p \in Procs, o \in OrderInputs : cancel_get_order(p, o)
    \/ \E p \in Procs : cancel_get_customer(p)
    \/ \E p \in Procs : cancel_write(p)
    \/ \E p \in Procs : cancel_return(p)

SpecRace == Init /\ [][NextRace]_vars

(***************************************************************************)
(* Properties.  A step of the behaviour is one service call; `last` in the *)
(* state after the step says which call it was, what it was given and what *)
(* it raised or returned, the unprimed tables are the store the call found.*)
(***************************************************************************)
\* the error taxonomy (InvalidInput, NotFound, InsufficientFunds, InvalidState):
\* every one is a ValueError in the code, told apart by its message
ErrorKind(err) ==
    CASE err \in {"Quantity must be at least 1.",
                  "Points to add must be greater than 0.",
                  "Name is required.",
                  "A valid email is required.",
                  "Points cannot be negative.",
                  "Reward name is required.",
                  "Reward cost must be greater than 0."} -> "InvalidInput"
      [] err \in {"Customer not found.",
                  "Reward not found.",
                  "Order not found.",
                  "Customer not found for this order."} -> "NotFound"
      [] err = "does not have enough points." -> "InsufficientFunds"
      [] err = "Order is not pending" -> "InvalidState"
      [] err = "sqlite3.IntegrityError" -> "StorageError"
      [] OTHER -> "None"

Called(op) == last'.op = op

Succeeded == last'.err = Ok

StoreUnchanged == UNCHANGED <<customers, rewards, orders, seq>>

\* the ids of the rows a step added to the orders table
NewOrders == DOMAIN orders' \ DOMAIN orders

\* C1: redeem_reward for an existing customer, an existing reward and a
\* quantity >= 1 succeeds exactly when the balance covers cost * quantity;
\* it then takes cost * quantity off that balance and adds one order for this
\* customer, reward and quantity, with points_spent = cost * quantity and
\* status pending; every other customer and every other order stay as they were.
C1_RedeemContract ==
    [][ Called("redeem_reward") =>
          LET c == last'.args[1]
              r == last'.args[2]
              q == last'.args[3]
              total == rewards[r].cost * q
          IN  (c \in DOMAIN customers /\ r \in DOMAIN rewards /\ q >= 1) =>
                /\ Succeeded <=> customers[c].points >= total
                /\ Succeeded =>
                     /\ customers' = [customers EXCEPT ![c].points = @ - total]
                     /\ Cardinality(NewOrders) = 1
                     /\ \A o \in NewOrders :
                          /\ orders'[o].customer_id = c
                          /\ orders'[o].reward_id = r
                          /\ orders'[o].quantity = q
                          /\ orders'[o].points_spent = total
                          /\ orders'[o].status = "pending"
                     /\ \A o \in DOMAIN orders :
                          o \in DOMAIN orders' /\ orders'[o] = orders[o]
                     /\ last'.ret[3] = total
      ]_vars

\* a redemption that used the whole balance, with an earlier order in place
C1_Witness ==
    /\ last.op = "redeem_reward" /\ last.err = Ok
    /\ customers[last.args[1]].points = 0
    /\ Cardinality(DOMAIN orders) = 2

\* C2: in every reachable state every customer's balance is a non-negative
\* integer.
C2_BalanceNonNegative ==
    \A c \in DOMAIN customers : customers[c].points \in Nat

\* a redemption refused for lack of points, asked by a customer whose earlier
\* order left less than the cheapest cost asked for
C2_Witness ==
    /\ last.op = "redeem_reward"
    /\ last.err = "does not have enough points."
    /\ customers[last.args[1]].points < 20
    /\ \E o \in DOMAIN orders : orders[o].customer_id = last.args[1]

\* C3: an order appears only by a successful redeem_reward and is pending
\* then; a pending order leaves 'pending' only by a successful fulfill_order
\* (to 'fulfilled') or cancel_order (to 'cancelled') of that order, and in that
\* step only its status changes; an order that is fulfilled or cancelled is
\* never changed or removed by any later call.
C3_OrderOneShot ==
    [][ /\ \A o \in NewOrders :
             /\ orders'[o].status = "pending"
             /\ Called("redeem_reward") /\ Succeeded
        /\ \A o \in DOMAIN orders :
             /\ o \in DOMAIN orders'
             /\ orders[o].status # "pending" => orders'[o] = orders[o]
             /\ orders'[o].status # orders[o].status =>
                  /\ orders'[o] = [orders[o] EXCEPT !.status = orders'[o].status]
                  /\ Succeeded /\ last'.args = <<o>>
                  /\ \/ Called("fulfill_order") /\ orders'[o].status = "fulfilled"
                     \/ Called("cancel_order") /\ orders'[o].status = "cancelled"
      ]_vars

\* a closed order, and points issued successfully after it was closed
C3_Witness ==
    /\ \E o \in DOMAIN orders : orders[o].status \in {"fulfilled", "cancelled"}
    /\ last.op = "issue_points" /\ last.err = Ok

\* C4: cancel_order of a pending order whose customer exists adds the order's
\* stored points_spent to that customer's balance, sets the order's status to
\* 'cancelled', returns the customer with the new balance, and changes no
\* other customer and no other order.
C4_CancelRefunds ==
    [][ Called("cancel_order") =>
          LET o == last'.args[1]
              c == orders[o].customer_id
          IN  (/\ o \in DOMAIN orders
               /\ orders[o].status = "pending"
               /\ c \in DOMAIN customers) =>
                /\ Succeeded
                /\ customers' =
                     [customers EXCEPT ![c].points = @ + orders[o].points_spent]
                /\ orders' = [orders EXCEPT ![o].status = "cancelled"]
                /\ last'.ret = <<[id |-> c,
                                  name |-> customers[c].name,
                                  email |-> customers[c].email,
                                  points |-> customers[c].points
                                             + orders[o].points_spent]>>
      ]_vars

\* an order cancelled while another order of the same customer stays pending
C4_Witness ==
    /\ last.op = "cancel_order" /\ last.err = Ok
    /\ \E o \in DOMAIN orders :
         /\ o # last.args[1]
         /\ orders[o].status = "pending"
         /\ orders[o].customer_id = orders[last.args[1]].customer_id

\* C5: fulfill_order of a pending order changes the status of that order to
\* 'fulfilled' and nothing else: no balance, no reward, no other order and no
\* other field of the order.
C5_FulfillFrame ==
    [][ Called("fulfill_order") =>
          LET o == last'.args[1]
          IN  (o \in DOMAIN orders /\ orders[o].status = "pending") =>
                /\ Succeeded
                /\ orders' = [orders EXCEPT ![o].status = "fulfilled"]
                /\ UNCHANGED <<customers, rewards>>
      ]_vars

\* an order fulfilled while another order is pending
C5_Witness ==
    /\ last.op = "fulfill_order" /\ last.err = Ok
    /\ orders[last.args[1]].status = "fulfilled"
    /\ \E o \in DOMAIN orders : orders[o].status = "pending"

\* C6: fulfill_order and cancel_order raise NotFound for an order id that is
\* no row and InvalidState for an order that is not pending, and then change
\* no balance and no order: a second cancel refunds nothing.
C6_CloseFailures ==
    [][ (Called("fulfill_order") \/ Called("cancel_order")) =>
          LET o == last'.args[1]
          IN  /\ o \notin DOMAIN orders =>
                   ErrorKind(last'.err) = "NotFound" /\ StoreUnchanged
              /\ (o \in DOMAIN orders /\ orders[o].status # "pending") =>
                   ErrorKind(last'.err) = "InvalidState" /\ StoreUnchanged
      ]_vars

\* a second cancel of a cancelled order, refused
C6_Witness ==
    /\ last.op = "cancel_order" /\ ErrorKind(last.err) = "InvalidState"
    /\ orders[last.args[1]].status = "cancelled"

\* C7: issue_points with points > 0 for an existing customer adds exactly
\* that many points to that customer's balance and changes nothing else; with
\* points <= 0 it raises InvalidInput, with points > 0 and no such customer
\* NotFound, and then no balance and no order changes.
C7_IssuePoints ==
    [][ Called("issue_points") =>
          LET c == last'.args[1]
              p == last'.args[2]
          IN  /\ (p > 0 /\ c \in DOMAIN customers) =>
                   /\ Succeeded
                   /\ customers' = [customers EXCEPT ![c].points = @ + p]
                   /\ UNCHANGED <<rewards, orders, seq>>
              /\ p <= 0 =>
                   ErrorKind(last'.err) = "InvalidInput" /\ StoreUnchanged
              /\ (p > 0 /\ c \notin DOMAIN customers) =>
                   ErrorKind(last'.err) = "NotFound" /\ StoreUnchanged
      ]_vars

\* points issued to a customer who has a pending order
C7_Witness ==
    /\ last.op = "issue_points" /\ last.err = Ok
    /\ last.ret[1].points = customers[last.args[1]].points
    /\ \E o \in DOMAIN orders :
         orders[o].customer_id = last.args[1] /\ orders[o].status = "pending"

\* C8: a redeem_reward that raises changes nothing, and what it raises goes
\* by this precedence: quantity < 1 is InvalidInput, whether or not customer
\* and reward exist; else a missing customer is NotFound (customer); else a
\* missing reward is NotFound (reward); else a balance below cost * quantity
\* is InsufficientFunds.
C8_RedeemFailures ==
    [][ Called("redeem_reward") =>
          LET c == last'.args[1]
              r == last'.args[2]
              q == last'.args[3]
          IN  /\ ~Succeeded => StoreUnchanged
              /\ q < 1 => last'.err = "Quantity must be at least 1."
                          /\ ErrorKind(last'.err) = "InvalidInput"
              /\ (q >= 1 /\ c \notin DOMAIN customers) =>
                   last'.err = "Customer not found."
                   /\ ErrorKind(last'.err) = "NotFound"
              /\ (q >= 1 /\ c \in DOMAIN customers /\ r \notin DOMAIN rewards) =>
                   last'.err = "Reward not found."
                   /\ ErrorKind(last'.err) = "NotFound"
              /\ (/\ q >= 1 /\ c \in DOMAIN customers /\ r \in DOMAIN rewards
                  /\ customers[c].points < rewards[r].cost * q) =>
                   ErrorKind(last'.err) = "InsufficientFunds"
      ]_vars

\* quantity 0 refused as invalid although neither customer nor reward exists
C8_Witness ==
    /\ last.op = "redeem_reward"
    /\ last.args[3] < 1
    /\ last.args[1] \notin DOMAIN customers
    /\ last.args[2] \notin DOMAIN rewards
    /\ ErrorKind(last.err) = "InvalidInput"

\* C9: what a successful redeem_reward takes off the balance is what it
\* stores as the order's points_spent; no call changes the points_spent or
\* the customer of an order; a successful cancel_order adds the stored
\* points_spent back and leaves the order cancelled.  So the cancel returns
\* what the redeem took, whatever was called in between, and a redeem
\* followed at once by its cancel restores the balance (100 -> 40 -> 100).
C9_RoundTrip ==
    /\ [][ /\ (Called("redeem_reward") /\ Succeeded) =>
                \A o \in NewOrders :
                    /\ orders'[o].customer_id = last'.args[1]
                    /\ customers[last'.args[1]].points
                         - customers'[last'.args[1]].points
                       = orders'[o].points_spent
           /\ \A o \in DOMAIN orders :
                /\ o \in DOMAIN orders'
                /\ orders'[o].points_spent = orders[o].points_spent
                /\ orders'[o].customer_id = orders[o].customer_id
           /\ (Called("cancel_order") /\ Succeeded) =>
                LET o == last'.args[1]
                    c == orders[o].customer_id
                IN  /\ customers'[c].points - customers[c].points
                       = orders[o].points_spent
                    /\ orders'[o].status = "cancelled"
         ]_vars
    /\ [](\A o \in DOMAIN orders :
            (Calls = 2 /\ orders[o].status = "cancelled") =>
                /\ orders[o].customer_id \in DOMAIN customers
                /\ customers[orders[o].customer_id].points
                   = SeedCustomers[orders[o].customer_id].points)

\* Alice back at 100 points after redeeming 3 Booster Packs (60 points),
\* receiving 25 issued points and cancelling the order
C9_Witness ==
    /\ last.op = "cancel_order" /\ last.err = Ok
    /\ orders[last.args[1]].customer_id = 1
    /\ orders[last.args[1]].points_spent = 60
    /\ Len(issued) = 1 /\ issued[1].customer_id = 1
    /\ customers[1].points = 125

\* C10: an order's points_spent is reward.cost * quantity as the reward
\* stands when redeem_reward runs, and no later call (adding or deleting
\* rewards, issuing points, fulfilling, cancelling) changes the points_spent
\* or the quantity of an order; cancel_order refunds the stored value.
C10_PointsSpentFrozen ==
    [][ /\ \A o \in NewOrders :
             orders'[o].points_spent
               = rewards[orders'[o].reward_id].cost * orders'[o].quantity
        /\ \A o \in DOMAIN orders :
             /\ o \in DOMAIN orders'
             /\ orders'[o].points_spent = orders[o].points_spent
             /\ orders'[o].quantity = orders[o].quantity
             /\ orders'[o].status = "cancelled" /\ orders[o].status # "cancelled" =>
                  customers'[orders[o].customer_id].points
                    = customers[orders[o].customer_id].points
                      + orders[o].points_spent
      ]_vars

\* an order for 3 items cancelled after a reward of another cost was added
C10_Witness ==
    /\ last.op = "cancel_order" /\ last.err = Ok
    /\ orders[last.args[1]].quantity = 3
    /\ seq.rewards = 5 /\ 5 \in DOMAIN rewards
    /\ rewards[5].cost # rewards[orders[last.args[1]].reward_id].cost

\* C11: get_pending_orders returns the pending orders, every one once and no
\* other order, and an order placed by an earlier redeem_reward (the lower id)
\* comes before one placed by a later redeem_reward.
C11_PendingInCreationOrder ==
    last.op = "get_pending_orders" =>
        /\ {last.ret[i].id : i \in 1..Len(last.ret)}
             = {o \in DOMAIN orders : orders[o].status = "pending"}
        /\ \A i, j \in 1..Len(last.ret) : i < j => last.ret[i].id < last.ret[j].id

NewCustomers == DOMAIN customers' \ DOMAIN customers

\* add_customer called with <<name, email, points>>, of which `name' and
\* `email' are the texts the conditions are about: when `valid' it adds
\* exactly one customer, with the given points, and otherwise it fails and
\* leaves the customers as they were
AddCustomerContract(name, email, points) ==
    LET valid == /\ name # <<>>
                 /\ ContainsAt(email)
                 /\ points >= 0
                 /\ \A c \in DOMAIN customers : customers[c].email # email
    IN  IF valid
        THEN /\ Succeeded
             /\ Cardinality(NewCustomers) = 1
             /\ \A c \in NewCustomers : customers'[c].points = points
             /\ \A c \in DOMAIN customers : customers'[c] = customers[c]
        ELSE /\ ~Succeeded
             /\ customers' = customers

UniqueEmails ==
    \A c, d \in DOMAIN customers :
        customers[c].email = customers[d].email => c = d

\* C12 as stated: add_customer succeeds exactly when the name it is given is
\* non-empty, the email it is given contains "@", points >= 0 and no customer
\* has the email it is given; no two customers share an email.
C12_AddCustomerAsGiven ==
    /\ [][Called("add_customer") =>
            AddCustomerContract(last'.args[1], last'.args[2], last'.args[3])]_vars
    /\ []UniqueEmails

\* C12: add_customer strips the name and the email first; it adds exactly one
\* customer, with the given points, when the stripped name is non-empty, the
\* stripped email contains "@", points >= 0 and no customer has the stripped
\* email, and otherwise it fails and leaves the customers unchanged; the new
\* customer is stored under the stripped texts and no two customers ever
\* share an email.
C12_AddCustomerStripped ==
    /\ [][Called("add_customer") =>
            /\ AddCustomerContract(strip(last'.args[1]), strip(last'.args[2]),
                                   last'.args[3])
            /\ \A c \in NewCustomers :
                 /\ customers'[c].name = strip(last'.args[1])
                 /\ customers'[c].email = strip(last'.args[2])]_vars
    /\ []UniqueEmails

\* a second customer was added, and a further call that gives the email of an
\* existing customer (with a space before it) was refused
C12_Witness ==
    /\ seq.customers > 3
    /\ last.op = "add_customer"
    /\ last.err = "sqlite3.IntegrityError"
    /\ last.args[2] # strip(last.args[2])

\* C13: every reward has a cost > 0; a reward that stays keeps its cost;
\* add_reward with a cost <= 0 or an empty name fails and leaves the rewards
\* unchanged; only add_reward and delete_reward change the set of rewards.
C13_RewardCosts ==
    /\ [](\A r \in DOMAIN rewards : rewards[r].cost \in Nat \ {0})
    /\ [][/\ \A r \in DOMAIN rewards \cap DOMAIN rewards' :
                rewards'[r].cost = rewards[r].cost
          /\ (Called("add_reward")
                /\ (last'.args[2] <= 0 \/ last'.args[1] = <<>>))
               => ~Succeeded /\ rewards' = rewards
          /\ DOMAIN rewards' # DOMAIN rewards
               => last'.op \in {"add_reward", "delete_reward"}]_vars

\* a reward was added and a seed reward deleted, and then a reward of cost 0
\* was refused
C13_Witness ==
    /\ seq.rewards > 4
    /\ 1 \notin DOMAIN rewards
    /\ last.op = "add_reward" /\ last.args[2] = 0 /\ last.err # Ok

\* C14: delete_customer removes the customer and every order that references
\* it, and delete_reward removes the reward and every order that references
\* it.
C14_DeleteCascades ==
    [][/\ (Called("delete_customer") /\ last'.args[1] \in DOMAIN customers)
            => /\ last'.args[1] \notin DOMAIN customers'
               /\ \A o \in DOMAIN orders' :
                    orders'[o].customer_id # last'.args[1]
       /\ (Called("delete_reward") /\ last'.args[1] \in DOMAIN rewards)
            => /\ last'.args[1] \notin DOMAIN rewards'
               /\ \A o \in DOMAIN orders' :
                    orders'[o].reward_id # last'.args[1]]_vars

RECURSIVE SumOver(_, _)
\* the sum of f[x] over the finite set S
SumOver(f, S) ==
    IF S = {} THEN 0
    ELSE LET x == CHOOSE x \in S : TRUE IN f[x] + SumOver(f, S \ {x})

\* the points_spent of the pending and fulfilled orders of customer c
Outstanding(c) ==
    LET mine == {o \in DOMAIN orders :
                    /\ orders[o].customer_id = c
                    /\ orders[o].status \in {"pending", "fulfilled"}}
    IN  SumOver([o \in mine |-> orders[o].points_spent], mine)

\* the points issued to customer c so far
IssuedTo(c) ==
    LET mine == {i \in 1..Len(issued) : issued[i].customer_id = c}
    IN  SumOver([i \in mine |-> issued[i].points], mine)

\* C17: for every customer, the balance plus the points_spent of the
\* customer's pending and fulfilled orders equals the points the customer
\* started with plus the points issued to the customer; cancelled orders
\* count for nothing.
C17_PointsConserved ==
    \A c \in DOMAIN customers :
        customers[c].points + Outstanding(c) = opening[c] + IssuedTo(c)

\* a customer who was issued points, holds an open order and had another
\* order cancelled
C17_Witness ==
    \E c \in DOMAIN customers :
        /\ IssuedTo(c) > 0
        /\ \E o \in DOMAIN orders :
             orders[o].customer_id = c /\ orders[o].status = "cancelled"
        /\ customers[c].points # opening[c]

\* the orders inserted since the call of process p began
OrdersSince(p) == {o \in DOMAIN orders : o > procs[p].base}

\* the balance that the redeem_reward of process p writes: the balance it
\* read less the cost it computed
RedeemedBalance(p) ==
    procs[p].customer[1].points
        - total_cost(procs[p].reward[1], procs[p].args[3])

\* the redeem_reward of process p has committed one of its two writes
BetweenRedeemWrites(p) ==
    procs[p].op = "redeem_reward" /\ Len(procs[p].written) = 1

\* the process stopped between the two writes of redeem_reward, with the
\* points deducted and no order row
PointsDeductedNoOrder(p) ==
    /\ BetweenRedeemWrites(p) /\ procs[p].pc = "crashed"
    /\ customers[procs[p].args[1]].points = RedeemedBalance(p)
    /\ OrdersSince(p) = {}

\* the process stopped between the two writes of redeem_reward, with the
\* order row there and the points not deducted
OrderRowNoDeduction(p) ==
    /\ BetweenRedeemWrites(p) /\ procs[p].pc = "crashed"
    /\ customers[procs[p].args[1]].points = procs[p].customer[1].points
    /\ OrdersSince(p) # {}

\* C15 as stated: a crash between the two writes of redeem_reward can leave
\* the points deducted with no order row, and it can leave an order row with
\* the points not deducted.
C15_EitherInconsistency ==
    (BetweenRedeemWrites(1) /\ procs[1].pc = "write" /\ crashes < MaxCrashes)
        => /\ ENABLED (Crash(1) /\ PointsDeductedNoOrder(1)')
           /\ ENABLED (Crash(1) /\ OrderRowNoDeduction(1)')

\* C15: redeem_reward commits the points before the order row, so a crash
\* between its two writes leaves the points deducted and no order row, and
\* never an order row with the points not deducted.
C15_PointsBeforeOrder ==
    /\ BetweenRedeemWrites(1) =>
          /\ customers[procs[1].args[1]].points = RedeemedBalance(1)
          /\ OrdersSince(1) = {}
    /\ ~OrderRowNoDeduction(1)

\* the process stopped after the points were written and before the order
\* row was inserted
C15_Witness == PointsDeductedNoOrder(1)

\* C19: an order is 'cancelled' only after its refund was committed: the
\* refund write adds the order's points_spent to the customer's balance and
\* comes before the status write, so that wherever the process stops no order
\* is 'cancelled' with its points never returned.
C19_RefundBeforeCancelled ==
    /\ [](\A o \in DOMAIN orders :
            orders[o].status = "cancelled" => o \in refunded)
    /\ [][/\ \A o \in refunded' \ refunded :
                customers'[orders[o].customer_id].points =
                    customers[orders[o].customer_id].points
                        + orders[o].points_spent
          /\ \A o \in DOMAIN orders :
                (orders[o].status # "cancelled"
                    /\ orders'[o].status = "cancelled") => o \in refunded
         ]_vars

\* the process stopped between the two writes of cancel_order: the refund is
\* committed and the order is still pending
C19_Witness ==
    /\ At(1, "cancel_order", "crashed")
    /\ procs[1].written = <<"points">>
    /\ procs[1].args[1] \in refunded
    /\ orders[procs[1].args[1]].status = "pending"
    /\ customers[procs[1].order[1].customer_id].points =
           procs[1].customer[1].points + procs[1].order[1].points_spent

\* the balance that the call of process p writes, computed from the balance
\* the call read
WrittenBalance(p) ==
    CASE procs[p].op = "redeem_reward" -> RedeemedBalance(p)
      [] procs[p].op = "issue_points" ->
           procs[p].customer[1].points + procs[p].args[2]
      [] procs[p].op = "cancel_order" ->
           procs[p].customer[1].points + procs[p].order[1].points_spent

\* process p commits its points write in this step
WritesPoints(p) ==
    /\ Len(procs'[p].written) = Len(procs[p].written) + 1
    /\ procs'[p].written[Len(procs'[p].written)] = "points"

\* C16: the points write is last-write-wins: whatever the other caller has
\* written since, a call's points write sets the balance to the value the
\* call computed from the balance it read.
C16_LastWriteWins ==
    [][\A p \in Procs :
         WritesPoints(p) =>
            customers'[procs[p].customer[1].id].points = WrittenBalance(p)]_vars

\* both callers redeemed for the same customer from the same balance read,
\* both passed the funds check and returned, there are two pending orders
\* and the balance shows one deduction only
C16_Witness ==
    /\ \A p \in Procs :
         /\ At(p, "redeem_reward", "done") /\ procs[p].err = Ok
         /\ procs[p].args[1] = 1
         /\ procs[p].customer = procs[1].customer
    /\ Cardinality({o \in DOMAIN orders :
                      /\ orders[o].customer_id = 1
                      /\ orders[o].status = "pending"}) = 2
    /\ opening[1] - customers[1].points < Outstanding(1)
    /\ \E p \in Procs : customers[1].points = RedeemedBalance(p)

====
